---- MODULE Spec2Model ----
(***************************************************************************)
(* A model of donut.py: the ASCIIDonut renderer (buffers, depth-tested     *)
(* write, glyph selection) and the drivers that call it (demo_styles,      *)
(* spin).                                                                  *)
(*                                                                         *)
(* Reals are fixed-point integers: lengths, trigonometric values and       *)
(* luminance are scaled by Scale, inverse depth by OozScale, and angles    *)
(* are counted in hundredths of a radian, the unit in which theta_step,    *)
(* phi_step, A_speed and B_speed of the program are whole numbers.         *)
(***************************************************************************)
EXTENDS Integers, Sequences, FiniteSets

VARIABLES width, height, chars, A, B, output, zbuffer,
          pc, caller, theta, phi, luminance, char_index,
          frame_count, error, screen

vars == <<width, height, chars, A, B, output, zbuffer,
          pc, caller, theta, phi, luminance, char_index,
          frame_count, error, screen>>

(***************************************************************************)
(* Bounds of the model.                                                    *)
(***************************************************************************)
\* fixed-point resolution of lengths, sines and luminance
Scale == 1000
\* the viewport of the one well-configured instance
MaxWidth == 8
MaxHeight == 4
\* the sweep visits every ThetaStride-th / PhiStride-th sample of the program
ThetaStride == 13
PhiStride == 53
\* frames one call of spin renders before it is interrupted
MaxFrames == 2
\* luminance inputs of the glyph-index specification: -LumSpan .. Scale + LumSpan
LumSpan == 600

OozScale == 10 * Scale

Widths == {0, MaxWidth}
Heights == {-1, MaxHeight}

(***************************************************************************)
(* Program constants (ASCIIDonut.__init__).                                *)
(***************************************************************************)
R1 == 1
R2 == 2
K2 == 5
theta_step == 7
phi_step == 2
A_speed == 8
B_speed == 3
\* math.pi in hundredths of a radian
PI == 314
\* demo_styles sets A = B = 1.0
DemoAngle == 100

luminance_chars ==
    <<" ", ".", "'", ":", "!", "~", ";", "i", "r", "s", "X", "A",
      "2", "5", "3", "h", "M", "H", "G", "S", "#", "9", "&", "@">>

\* faulty variant of the presets: the minimal ramp has lost its leading blank
color_charsNoBlank ==
    [classic |-> luminance_chars,
     minimal |-> <<".", "-", "=", "+", "*", "#", "@">>,
     blocks  |-> <<" ", "u2591", "u2592", "u2593", "u2588">>,
     dots    |-> <<" ", "u00B7", "u2218", "u25CB", "u25CF">>]

color_chars ==
    [classic |-> luminance_chars,
     minimal |-> <<" ", ".", "-", "=", "+", "*", "#", "@">>,
     blocks  |-> <<" ", "u2591", "u2592", "u2593", "u2588">>,
     dots    |-> <<" ", "u00B7", "u2218", "u25CB", "u25CF">>]

\* the style names the drivers pass, and one name that is no preset
StyleNames == {"classic", "minimal", "blocks", "dots"}
StyleArgs == StyleNames \cup {"neon"}

(***************************************************************************)
(* Arithmetic.                                                             *)
(***************************************************************************)
\* int(n / d) of Python: truncation toward zero (d > 0)
Trunc(n, d) == IF n >= 0 THEN n \div d ELSE -((-n) \div d)

\* product of two fixed-point numbers
FMul(a, b) == (a * b) \div Scale

Max(a, b) == IF a >= b THEN a ELSE b
Min(a, b) == IF a <= b THEN a ELSE b

\* math.sin on hundredths of a radian, scaled by Scale (Bhaskara's formula
\* on a half period)
SinTable ==
    [a \in 0 .. (2 * PI - 1) |->
        LET h == IF a < PI THEN a ELSE a - PI
            p == h * (PI - h)
            v == (16 * p * Scale) \div (5 * PI * PI - 4 * p)
        IN  IF a < PI THEN v ELSE -v]

sin(a) == SinTable[a % (2 * PI)]
cos(a) == SinTable[(a + PI \div 2) % (2 * PI)]

\* list indexing of Python on a list of length n: the position read, or -1
\* for IndexError
PyIndex(n, i) ==
    IF 0 <= i /\ i < n THEN i
    ELSE IF -n <= i /\ i < 0 THEN n + i
    ELSE -1

(***************************************************************************)
(* ASCIIDonut: construction, buffers, style.                               *)
(***************************************************************************)
\* K1 = width * K2 * 3 / (8 * (R1 + R2)), kept as a fraction K1Num / K1Den
K1Num(w) == w * K2 * 3
K1Den == 8 * (R1 + R2)

\* [[' ' for _ in range(width)] for _ in range(height)]
NewOutput(w, h) == [y \in 0 .. h - 1 |-> [x \in 0 .. w - 1 |-> " "]]
NewZBuffer(w, h) == [y \in 0 .. h - 1 |-> [x \in 0 .. w - 1 |-> 0]]

\* faulty variants of reset_buffers: the last column is missed; the depths are kept
ResetOutputShort(g) ==
    [y \in DOMAIN g |-> [x \in DOMAIN g[y] |->
        IF y \in 0 .. height - 1 /\ x \in 0 .. width - 2 THEN " " ELSE g[y][x]]]
ResetZBufferKeep(g) == g

\* the loops of reset_buffers over range(height) x range(width)
ResetOutput(g) ==
    [y \in DOMAIN g |-> [x \in DOMAIN g[y] |->
        IF y \in 0 .. height - 1 /\ x \in 0 .. width - 1 THEN " " ELSE g[y][x]]]
ResetZBuffer(g) ==
    [y \in DOMAIN g |-> [x \in DOMAIN g[y] |->
        IF y \in 0 .. height - 1 /\ x \in 0 .. width - 1 THEN 0 ELSE g[y][x]]]

\* set_style: a preset, or the default ramp for any other name
StyleRamp(style) ==
    IF style \in DOMAIN color_chars THEN color_chars[style] ELSE luminance_chars

(***************************************************************************)
(* calculate_point: projection and luminance of one surface sample.        *)
(***************************************************************************)
calculate_point(th, ph, cosA, sinA, cosB, sinB) ==
    LET costheta == cos(th)
        sintheta == sin(th)
        cosphi   == cos(ph)
        sinphi   == sin(ph)
        circlex  == R2 * Scale + R1 * costheta
        circley  == R1 * sintheta
        x == FMul(circlex, FMul(cosB, cosphi) + FMul(FMul(sinA, sinB), sinphi))
             - FMul(circley, FMul(cosA, sinB))
        y == FMul(circlex, FMul(sinB, cosphi) - FMul(FMul(sinA, cosB), sinphi))
             + FMul(circley, FMul(cosA, cosB))
        z == K2 * Scale + FMul(FMul(cosA, circlex), sinphi) + FMul(circley, sinA)
        ooz == (Scale * OozScale) \div z
        xp == Trunc(width * K1Den * OozScale + 2 * K1Num(width) * FMul(ooz, x),
                    2 * K1Den * OozScale)
        yp == Trunc(height * K1Den * OozScale - 2 * K1Num(width) * FMul(ooz, y),
                    2 * K1Den * OozScale)
        L1 == FMul(FMul(cosphi, costheta), sinB) - FMul(FMul(cosA, costheta), sinphi)
              - FMul(sinA, sintheta)
              + FMul(cosB, FMul(cosA, sintheta) - FMul(FMul(costheta, sinA), sinphi))
    IN  [xp |-> xp, yp |-> yp, ooz |-> ooz,
         luminance |-> Max(0, (L1 * 8 + 2 * Scale) \div 10)]

\* the sample render_frame computes at loop position (th, ph)
Sample(th, ph) == calculate_point(th, ph, cos(A), sin(A), cos(B), sin(B))

(***************************************************************************)
(* render_frame: the depth-tested write.                                   *)
(***************************************************************************)
\* while theta < 2 * math.pi (2 pi = 6.2832 lies between 628 and 629 hundredths)
InSweep(t) == t <= 2 * PI

\* faulty variant of the bounds check: the lower bounds are forgotten
InBoundsUpperOnly(xp, yp) == xp < width /\ yp < height

\* 0 <= xp < self.width and 0 <= yp < self.height
InBounds(xp, yp) == 0 <= xp /\ xp < width /\ 0 <= yp /\ yp < height

\* faulty variants of the glyph index: the clamp is missing; round instead of int
CharIndexNoClamp(lum, ramp) == Trunc(lum * (Len(ramp) - 1), Scale)
CharIndexRound(lum, ramp) ==
    Max(0, Min(Len(ramp) - 1, (2 * lum * (Len(ramp) - 1) + Scale) \div (2 * Scale)))

\* int(luminance * (len(chars) - 1)), then max(0, min(len(chars) - 1, .))
CharIndex(lum, ramp) ==
    Max(0, Min(Len(ramp) - 1, Trunc(lum * (Len(ramp) - 1), Scale)))

\* lengths of the allocated lists
NRows == Max(0, height)
NCols == Max(0, width)

\* phi += phi_step; when the inner loop ends, theta += theta_step and phi = 0
NextPhi == phi + phi_step * PhiStride
NextTheta == theta + theta_step * ThetaStride

\* faulty variants of the depth test: none at all; ties pass
DepthTestAlways(ooz, cur) == TRUE
DepthTestOrEqual(ooz, cur) == ooz >= cur

\* ooz > self.zbuffer[yp][xp]
DepthTest(ooz, cur) == ooz > cur

\* the body of the sweep for one sample p, on buffers o and z with ramp:
\* bounds check, depth test, depth write, glyph selection, glyph write.
\* The bounds check short-circuits the depth read; every list access has
\* Python's meaning (a negative index counts from the end, an index past
\* the end raises IndexError).
DepthWrite(o, z, p, ramp) ==
    LET r  == PyIndex(NRows, p.yp)
        c  == PyIndex(NCols, p.xp)
        ci == CharIndex(p.luminance, ramp)
        g  == PyIndex(Len(ramp), ci)
        skip == [output |-> o, zbuffer |-> z, wrote |-> FALSE, error |-> "none"]
    IN  IF ~InBounds(p.xp, p.yp) THEN skip
        ELSE IF r = -1 \/ c = -1
        THEN [skip EXCEPT !.error = "IndexError"]
        ELSE IF ~DepthTest(p.ooz, z[r][c]) THEN skip
        ELSE IF g = -1
        THEN [output |-> o, zbuffer |-> [z EXCEPT ![r][c] = p.ooz],
              wrote |-> FALSE, error |-> "IndexError"]
        ELSE [output |-> [o EXCEPT ![r][c] = ramp[g + 1]],
              zbuffer |-> [z EXCEPT ![r][c] = p.ooz],
              wrote |-> TRUE, error |-> "none"]

\* the frame a driver hands to presentation, with the inputs it was rendered from
Snapshot ==
    [valid |-> TRUE, A |-> A, B |-> B, chars |-> chars,
     output |-> output, zbuffer |-> zbuffer]
NoFrame ==
    [valid |-> FALSE, A |-> 0, B |-> 0, chars |-> <<>>,
     output |-> <<>>, zbuffer |-> <<>>]

(***************************************************************************)
(* The state machine.                                                      *)
(***************************************************************************)
\* ASCIIDonut(width, height): nothing is validated
Init ==
    /\ width \in Widths
    /\ height \in Heights
    /\ chars = luminance_chars
    /\ A = 0
    /\ B = 0
    /\ output = NewOutput(width, height)
    /\ zbuffer = NewZBuffer(width, height)
    /\ pc = "idle"
    /\ caller = "none"
    /\ theta = 0
    /\ phi = 0
    /\ luminance = 0
    /\ char_index = 0
    /\ frame_count = 0
    /\ error = "none"
    /\ screen = NoFrame

set_style(style) ==
    /\ pc = "idle"
    /\ chars' = StyleRamp(style)
    /\ UNCHANGED <<width, height, A, B, output, zbuffer, pc, caller, theta, phi,
                   luminance, char_index, frame_count, error, screen>>

reset_buffers ==
    /\ pc = "idle"
    /\ output' = ResetOutput(output)
    /\ zbuffer' = ResetZBuffer(zbuffer)
    /\ UNCHANGED <<width, height, chars, A, B, pc, caller, theta, phi,
                   luminance, char_index, frame_count, error, screen>>

\* one pass of the loop of demo_styles, up to the call of render_frame (any
\* style, in any order: the loop's order classic, minimal, blocks, dots is
\* one of them)
DemoStyle(style) ==
    /\ pc = "idle"
    /\ chars' = StyleRamp(style)
    /\ A' = DemoAngle
    /\ B' = DemoAngle
    /\ pc' = "render_frame"
    /\ caller' = "demo"
    /\ UNCHANGED <<width, height, output, zbuffer, theta, phi,
                   luminance, char_index, frame_count, error, screen>>

\* render_frame up to the first sample: reset_buffers, theta = 0, phi = 0
RenderFrameBegin ==
    /\ pc = "render_frame"
    /\ output' = ResetOutput(output)
    /\ zbuffer' = ResetZBuffer(zbuffer)
    /\ theta' = 0
    /\ phi' = 0
    /\ pc' = "sweep"
    /\ UNCHANGED <<width, height, chars, A, B, caller,
                   luminance, char_index, frame_count, error, screen>>

\* one pass of the inner loop of render_frame
SweepStep ==
    /\ pc = "sweep"
    /\ LET p == Sample(theta, phi)
           w == DepthWrite(output, zbuffer, p, chars)
       IN  /\ luminance' = p.luminance
           /\ output' = w.output
           /\ zbuffer' = w.zbuffer
           /\ error' = w.error
           /\ char_index' = IF w.wrote THEN CharIndex(p.luminance, chars)
                            ELSE char_index
           /\ IF w.error # "none"
              THEN /\ pc' = "crashed"
                   /\ UNCHANGED <<theta, phi>>
              ELSE IF InSweep(NextPhi)
              THEN /\ phi' = NextPhi
                   /\ UNCHANGED <<theta, pc>>
              ELSE /\ phi' = 0
                   /\ theta' = NextTheta
                   /\ pc' = IF InSweep(NextTheta) THEN "sweep" ELSE "rendered"
    /\ UNCHANGED <<width, height, chars, A, B, caller, frame_count, screen>>

\* demo_styles prints the rows of donut.output
DemoPrint ==
    /\ pc = "rendered"
    /\ caller = "demo"
    /\ screen' = Snapshot
    /\ pc' = "idle"
    /\ caller' = "none"
    /\ UNCHANGED <<width, height, chars, A, B, output, zbuffer, theta, phi,
                   luminance, char_index, frame_count, error>>

\* spin is entered
SpinStart ==
    /\ pc = "idle"
    /\ pc' = "spin"
    /\ caller' = "spin"
    /\ frame_count' = 0
    /\ UNCHANGED <<width, height, chars, A, B, output, zbuffer, theta, phi,
                   luminance, char_index, error, screen>>

\* the loop condition of spin holds: render_frame is called
SpinIterate ==
    /\ pc = "spin"
    /\ frame_count < MaxFrames
    /\ pc' = "render_frame"
    /\ UNCHANGED <<width, height, chars, A, B, output, zbuffer, caller, theta, phi,
                   luminance, char_index, frame_count, error, screen>>

\* faulty variant of the loop of spin: the frame is displayed while it is swept
display_frameEarly ==
    /\ pc \in {"sweep", "rendered"}
    /\ caller = "spin"
    /\ screen' = Snapshot
    /\ pc' = "displayed"
    /\ UNCHANGED <<width, height, chars, A, B, output, zbuffer, caller, theta, phi,
                   luminance, char_index, frame_count, error>>

\* display_frame reads self.output to print it
display_frame ==
    /\ pc = "rendered"
    /\ caller = "spin"
    /\ screen' = Snapshot
    /\ pc' = "displayed"
    /\ UNCHANGED <<width, height, chars, A, B, output, zbuffer, caller, theta, phi,
                   luminance, char_index, frame_count, error>>

\* self.A += self.A_speed; self.B += self.B_speed; frame_count += 1
UpdateAngles ==
    /\ pc = "displayed"
    /\ A' = A + A_speed
    /\ B' = B + B_speed
    /\ frame_count' = frame_count + 1
    /\ pc' = "spin"
    /\ UNCHANGED <<width, height, chars, output, zbuffer, caller, theta, phi,
                   luminance, char_index, error, screen>>

\* the duration has elapsed at the loop condition, or Ctrl+C arrives anywhere
\* in the loop: spin returns and the program ends
SpinExit ==
    /\ caller = "spin"
    /\ pc \in {"spin", "render_frame", "sweep", "rendered", "displayed"}
    /\ pc' = "done"
    /\ UNCHANGED <<width, height, chars, A, B, output, zbuffer, caller, theta, phi,
                   luminance, char_index, frame_count, error, screen>>

Next ==
    \/ \E style \in StyleArgs : set_style(style)
    \/ reset_buffers
    \/ \E style \in StyleNames : DemoStyle(style)
    \/ RenderFrameBegin
    \/ SweepStep
    \/ DemoPrint
    \/ SpinStart
    \/ SpinIterate
    \/ display_frame
    \/ UpdateAngles
    \/ SpinExit

Spec == Init /\ [][Next]_vars

(***************************************************************************)
(* Vocabulary of the properties.                                           *)
(***************************************************************************)
\* the loop positions of one sweep, in order of enumeration: theta outer,
\* phi inner
ThetaValues == {t \in 0 .. 2 * PI : t % (theta_step * ThetaStride) = 0}
PhiValues == {p \in 0 .. 2 * PI : p % (phi_step * PhiStride) = 0}
Positions == ThetaValues \X PhiValues
Before(q1, q2) == q1[1] < q2[1] \/ (q1[1] = q2[1] /\ q1[2] < q2[2])

\* the positions whose sample the running (or finished) sweep has submitted
Submitted == {q \in Positions : Before(q, <<theta, phi>>)}

\* the sample of position q and the cell it falls in
At(q) == Sample(q[1], q[2])
OnCell(s, y, x) == s.xp = x /\ s.yp = y
Visible(s) == s.xp \in 0 .. width - 1 /\ s.yp \in 0 .. height - 1
GlyphOf(s) == chars[CharIndex(s.luminance, chars) + 1]

Rows == 0 .. height - 1
Cols == 0 .. width - 1
InFrame == pc \in {"sweep", "rendered"}

(***************************************************************************)
(* C1  Depth monotonicity.  While a frame is rendered and when it is done, *)
(* the depth of every cell is the largest inverse depth among the in-      *)
(* bounds samples submitted to the cell so far (0 when there is none) and  *)
(* the cell shows the glyph of a sample of that depth, whatever the order  *)
(* in which closer and farther samples arrived.                            *)
(***************************************************************************)
C1_DepthMonotone ==
    InFrame =>
        LET subs == {At(q) : q \in Submitted}
        IN  \A y \in Rows, x \in Cols :
                LET cell == {s \in subs : OnCell(s, y, x)}
                IN  IF cell = {}
                    THEN zbuffer[y][x] = 0 /\ output[y][x] = " "
                    ELSE /\ \A s \in cell : s.ooz <= zbuffer[y][x]
                         /\ \E s \in cell : /\ s.ooz = zbuffer[y][x]
                                            /\ output[y][x] = GlyphOf(s)

\* a finished frame in which one cell got a closer sample after a farther
\* one and another (or the same) cell a farther sample after a closer one,
\* with different glyphs
C1_Witness ==
    /\ pc = "rendered"
    /\ \E q1, q2 \in Positions :
          /\ Before(q1, q2) /\ Visible(At(q1))
          /\ OnCell(At(q2), At(q1).yp, At(q1).xp)
          /\ At(q1).ooz < At(q2).ooz
          /\ GlyphOf(At(q1)) # GlyphOf(At(q2))
          /\ zbuffer[At(q1).yp][At(q1).xp] = At(q2).ooz
    /\ \E q1, q2 \in Positions :
          /\ Before(q1, q2) /\ Visible(At(q1))
          /\ OnCell(At(q2), At(q1).yp, At(q1).xp)
          /\ At(q1).ooz > At(q2).ooz
          /\ GlyphOf(At(q1)) # GlyphOf(At(q2))
          /\ zbuffer[At(q1).yp][At(q1).xp] = At(q1).ooz

(***************************************************************************)
(* C2  Tie-break.  As claimed: of the samples of a frame that fall in one  *)
(* cell with the same inverse depth, the depth the cell ends with, the     *)
(* last submitted gives the cell its glyph.                                *)
(***************************************************************************)
\* the positions whose samples tie at the final depth of cell (y, x)
Tied(y, x) ==
    {q \in Positions : OnCell(At(q), y, x) /\ At(q).ooz = zbuffer[y][x]}
First(Q) == CHOOSE q \in Q : \A r \in Q : r = q \/ Before(q, r)
Last(Q) == CHOOSE q \in Q : \A r \in Q : r = q \/ Before(r, q)

C3_BoundsSafety ==
    /\ [](error = "none" /\ pc # "crashed")
    /\ [][(pc = "sweep" /\ ~Visible(Sample(theta, phi)))
            => (output' = output /\ zbuffer' = zbuffer /\ error' = "none")]_vars

\* a sweep of a well-configured instance, with glyphs already drawn, that
\* has passed a sample with a negative coordinate and one beyond the far
\* edge
C3_Witness ==
    /\ InFrame /\ width > 0 /\ height > 0 /\ error = "none"
    /\ \E y \in Rows, x \in Cols : output[y][x] # " "
    /\ \E q \in Submitted : At(q).xp < 0 \/ At(q).yp < 0
    /\ \E q \in Submitted : At(q).xp >= width \/ At(q).yp >= height

(***************************************************************************)
(* C4  Ramp switch.  A frame rendered with the classic ramp and presented, *)
(* then rendered again at the same angles after set_style('minimal').      *)
(* As claimed: both frames have the same non-blank cells and the same      *)
(* depth grid.                                                             *)
(***************************************************************************)
NonBlank(g) == {c \in Rows \X Cols : g[c[1]][c[2]] # " "}

\* render_frame has returned; the frame presented before it was rendered at
\* the same angles with the classic ramp, this one with the minimal ramp
RampSwitched ==
    /\ pc = "rendered"
    /\ screen.valid
    /\ screen.A = A /\ screen.B = B
    /\ screen.chars = color_chars.classic
    /\ chars = color_chars.minimal

C4_SameNonBlankCells ==
    RampSwitched =>
        /\ zbuffer = screen.zbuffer
        /\ NonBlank(output) = NonBlank(screen.output)

\* C4 as amended: the depth grid is the same and the cells non-blank with
\* the minimal ramp are among those non-blank with the classic ramp (both
\* ramps start with a blank, which the minimal ramp gives to every
\* luminance under 1/7 and the classic ramp to those under 1/23)
C4_DepthSameNonBlankSubset ==
    RampSwitched =>
        /\ zbuffer = screen.zbuffer
        /\ NonBlank(output) \subseteq NonBlank(screen.output)

\* the switch has happened, a cell shows different glyphs in the two frames
\* and a cell drawn with the classic ramp is blank with the minimal ramp
C4_Witness ==
    /\ RampSwitched
    /\ \E c \in NonBlank(output) : output[c[1]][c[2]] # screen.output[c[1]][c[2]]
    /\ NonBlank(screen.output) \ NonBlank(output) # {}

(***************************************************************************)
(* The glyph index alone, over luminance inputs that calculate_point       *)
(* cannot all produce: Init draws a luminance and a ramp, the one step     *)
(* computes the index as render_frame does.                                *)
(***************************************************************************)
LumInputs == (0 - LumSpan) .. (Scale + LumSpan)

IndexInit ==
    /\ luminance \in LumInputs
    /\ chars \in {StyleRamp(style) : style \in StyleArgs}
    /\ char_index = 0
    /\ pc = "index"
    /\ width = MaxWidth
    /\ height = MaxHeight
    /\ A = 0
    /\ B = 0
    /\ output = NewOutput(width, height)
    /\ zbuffer = NewZBuffer(width, height)
    /\ caller = "none"
    /\ theta = 0
    /\ phi = 0
    /\ frame_count = 0
    /\ error = "none"
    /\ screen = NoFrame

\* char_index = int(luminance * (len(self.chars) - 1)), clamped; then the
\* lookup self.chars[char_index]
IndexStep ==
    /\ pc = "index"
    /\ char_index' = CharIndex(luminance, chars)
    /\ error' = IF PyIndex(Len(chars), CharIndex(luminance, chars)) = -1
                THEN "IndexError" ELSE "none"
    /\ pc' = "indexed"
    /\ UNCHANGED <<width, height, chars, A, B, output, zbuffer, caller, theta, phi,
                   luminance, frame_count, screen>>

IndexSpec == IndexInit /\ [][IndexStep]_vars

(***************************************************************************)
(* C5  Fail-fast configuration.  As claimed: an instance with a non-       *)
(* positive width or height, or a scale constant K1 that is zero or        *)
(* negative, is stopped at construction by a configuration error and never *)
(* gets to render_frame.                                                   *)
(***************************************************************************)
BadConfig == width <= 0 \/ height <= 0 \/ K1Num(width) <= 0

C5_FailFastConfig ==
    BadConfig => pc \notin {"render_frame", "sweep", "rendered", "displayed"}

(***************************************************************************)
(* C6  Luminance clamping.  For every luminance, negative and above 1      *)
(* included, and every ramp, the index render_frame computes lies in       *)
(* 0 .. len(ramp) - 1 and the glyph lookup neither raises nor wraps.       *)
(***************************************************************************)
C6_IndexInRange ==
    pc = "indexed" =>
        /\ 0 <= char_index /\ char_index <= Len(chars) - 1
        /\ error = "none"

\* a luminance above 1 whose unclamped index is past the end of the ramp
C6_Witness ==
    /\ pc = "indexed"
    /\ luminance > Scale
    /\ luminance * (Len(chars) - 1) >= Len(chars) * Scale
    /\ char_index = Len(chars) - 1

(***************************************************************************)
(* C7  Idempotent reset.  Every reset_buffers, called on its own or by     *)
(* render_frame, whatever was drawn before, leaves the buffers as          *)
(* construction left them: height x width cells, all blank, all depth 0;   *)
(* a second call changes nothing.                                          *)
(***************************************************************************)
C7_IdempotentReset ==
    [][(reset_buffers \/ RenderFrameBegin)
         => /\ output' = NewOutput(width, height)
            /\ zbuffer' = NewZBuffer(width, height)]_vars

\* reset_buffers was called after a frame with glyphs was rendered and
\* presented: the buffers are blank while the screen still shows the frame
C7_Witness ==
    /\ pc = "idle" /\ width > 0 /\ height > 0
    /\ screen.valid /\ NonBlank(screen.output) # {}
    /\ chars # screen.chars
    /\ output = NewOutput(width, height)
    /\ zbuffer = NewZBuffer(width, height)

(***************************************************************************)
(* C8  Determinism, history independence.  The grids render_frame leaves   *)
(* are those a sweep over fresh buffers gives for the same width, height,  *)
(* A, B and ramp: nothing the buffers held before the call shows in them.  *)
(***************************************************************************)
\* the frame as a function of width, height, A, B and the ramp alone: each
\* cell takes the depth of the closest sample that falls in it and the glyph
\* of the first sample of that depth, or stays blank at depth 0
FreshFrame ==
    LET all == {<<q, At(q)>> : q \in Positions}
        falling(y, x) == {e \in all : OnCell(e[2], y, x)}
        closest(f) == {e \in f : \A r \in f : r[2].ooz <= e[2].ooz}
        first(f) == CHOOSE e \in f : \A r \in f : r = e \/ Before(e[1], r[1])
        winner(y, x) == first(closest(falling(y, x)))[2]
    IN  [output |-> [y \in Rows |-> [x \in Cols |->
                        IF falling(y, x) = {} THEN " " ELSE GlyphOf(winner(y, x))]],
         zbuffer |-> [y \in Rows |-> [x \in Cols |->
                        IF falling(y, x) = {} THEN 0 ELSE winner(y, x).ooz]]]

C8_HistoryIndependent ==
    pc = "rendered" => /\ output = FreshFrame.output
                       /\ zbuffer = FreshFrame.zbuffer

\* render_frame has returned with glyphs drawn, and the frame presented
\* before it, drawn at other angles, filled cells that are blank now
C8_Witness ==
    /\ pc = "rendered"
    /\ NonBlank(output) # {}
    /\ screen.valid
    /\ screen.A # A /\ screen.B # B
    /\ NonBlank(screen.output) \ NonBlank(output) # {}

(***************************************************************************)
(* C9  Glyph selection.  As claimed: a sample that passes the bounds and   *)
(* depth test, of luminance in [0, 1], puts ramp[index] in its cell with   *)
(* index = round(luminance * (len(ramp) - 1)), rounded to nearest.         *)
(***************************************************************************)
\* the pass of the sweep over the current sample writes its cell
Writes == pc = "sweep" /\ zbuffer' # zbuffer
Current == Sample(theta, phi)
\* luminance * (len(ramp) - 1), a fixed-point number
Scaled == Current.luminance * (Len(chars) - 1)

C9_RoundedIndex ==
    [][(Writes /\ Current.luminance <= Scale)
         => \E i \in 0 .. Len(chars) - 1 :
               /\ 2 * i * Scale - Scale <= 2 * Scaled
               /\ 2 * Scaled <= 2 * i * Scale + Scale
               /\ output'[Current.yp][Current.xp] = chars[i + 1]]_vars

\* C9 as amended: the index is luminance * (len(ramp) - 1) truncated to an
\* integer (int), clamped to the ramp, for every luminance
C9_TruncatedIndex ==
    [][Writes
         => \E i \in 0 .. Len(chars) - 1 :
               /\ i * Scale <= Scaled
               /\ Scaled < (i + 1) * Scale \/ i = Len(chars) - 1
               /\ char_index' = i
               /\ output'[Current.yp][Current.xp] = chars[i + 1]]_vars

\* a frame in which a written sample of luminance under 1 took the glyph
\* below the nearest one, and one of luminance above 1 the last glyph
C9_Witness ==
    /\ InFrame
    /\ \E q \in Submitted :
          /\ Visible(At(q))
          /\ At(q).ooz = zbuffer[At(q).yp][At(q).xp]
          /\ At(q).luminance < Scale
          /\ 2 * At(q).luminance * (Len(chars) - 1)
                > 2 * CharIndex(At(q).luminance, chars) * Scale + Scale
          /\ output[At(q).yp][At(q).xp] = GlyphOf(At(q))
    /\ \E q \in Submitted :
          /\ Visible(At(q))
          /\ At(q).ooz = zbuffer[At(q).yp][At(q).xp]
          /\ At(q).luminance > Scale
          /\ output[At(q).yp][At(q).xp] = chars[Len(chars)]

(***************************************************************************)
(* C10  Frame ordering in spin.  display_frame runs only when the sweep of *)
(* render_frame is over and changes neither grid; A and B stay as they are *)
(* while a frame is rendered and displayed, and change only after the      *)
(* display, by A_speed and B_speed, once for each frame, before the next   *)
(* render_frame.                                                           *)
(***************************************************************************)
C10_FrameOrdering ==
    /\ [][caller = "spin" =>
            /\ pc \in {"render_frame", "sweep", "rendered"} => (A' = A /\ B' = B)
            /\ screen' # screen =>
                  /\ pc = "rendered" /\ ~InSweep(theta)
                  /\ screen'.output = output /\ screen'.A = A /\ screen'.B = B
                  /\ output' = output /\ zbuffer' = zbuffer
            /\ (A' # A \/ B' # B) =>
                  /\ pc = "displayed" /\ pc' = "spin"
                  /\ A' = A + A_speed /\ B' = B + B_speed
                  /\ frame_count' = frame_count + 1
                  /\ screen.A = A /\ screen.B = B
            /\ (pc = "spin" /\ pc' = "render_frame") =>
                  (frame_count > 0 => (screen.A = A - A_speed /\ screen.B = B - B_speed))
         ]_vars
    /\ [](caller = "spin" /\ pc \in {"spin", "render_frame", "sweep", "rendered"}
            => \E start \in {0, DemoAngle} :
                  /\ A = start + A_speed * frame_count
                  /\ B = start + B_speed * frame_count)

\* the second frame of a spin is displayed: the screen shows it, rendered
\* at the angles of the first frame advanced once
C10_Witness ==
    /\ caller = "spin" /\ pc = "displayed" /\ frame_count = 1
    /\ A = A_speed /\ B = B_speed
    /\ screen.A = A /\ screen.B = B /\ screen.output = output
    /\ NonBlank(output) # {}

====
